---- MODULE Spec2Model ----
(***************************************************************************)
(* Model of the Dilithium / RSA signature benchmark harness.               *)
(*                                                                         *)
(* Spec      : one signature backend object (a DilithiumWrapper or an      *)
(*             RSABenchmark) driven through its public interface, with the *)
(*             external primitives (pq-crystals, OpenSSL EVP) modelled as  *)
(*             an ideal signature scheme whose steps may fail.             *)
(* SpecBench : Benchmark::run over the latencies the clock can report,     *)
(*             with its statistics computed in binary64 arithmetic.        *)
(* SpecMain  : main(), statement by statement: the demonstration, the      *)
(*             three benchmark phases with every timed region, the report  *)
(*             and the exit code.                                          *)
(***************************************************************************)
EXTENDS Integers, Naturals, Sequences, FiniteSets, TLC

VARIABLES
    backend,     \* which class the object under test is: "dilithium" / "rsa"
    alive,       \* FALSE once the destructor has run
    dil,         \* DilithiumWrapper fields: publicKey_, secretKey_, keysGenerated_
    rsa,         \* RSABenchmark fields: keySize_, pkey_, signCtx_, verifyCtx_
    heap,        \* objects owned by the OpenSSL provider (EVP_PKEY, EVP_PKEY_CTX, EVP_MD_CTX)
    lastOp,      \* name of the last member function called
    lastOut,     \* outcome of the external primitive in that call
    ret,         \* value the call returned
    primCalled,  \* whether the call invoked the external primitive
    escaped,     \* whether an exception left the call
    genOk,       \* the last key-changing call was a generateKeys that returned true
    loaded,      \* lattice key buffers filled by a successful generateKeys or import
    bench,       \* the Benchmark::run call in progress and the Result it returned
    env,         \* what the environment of main() varies: "faults" or a timed operation
    pc,          \* position of main(): function, statement, backend and operation
    output,      \* the lines written to std::cout / std::cerr so far, in order
    exitCode,    \* value main() returned, -1 before it returns
    mainMessage, \* the local `message` of the function being executed
    objs,        \* the backend objects: demo's dilithium, dilithium, rsa2048, rsa3072
    evp,         \* objects owned by the OpenSSL provider during main()
    sigs,        \* the locals signature, dilithiumSig, rsa2048Sig, rsa3072Sig
    results,     \* the Benchmark::Result locals, per backend and operation
    run,         \* locals of the Benchmark::run call in progress
    region,      \* the timed region: open, invocations and output events in it
    call,        \* the last call main() made on a backend object
    callCount,   \* calls made so far on each backend object, per member function
    lastSign,    \* per local: its last sign's message, return value and key material
    ratioLines   \* the lines of the speed comparison, as printed

backendVars ==
    <<backend, alive, dil, rsa, heap, lastOp, lastOut, ret, primCalled, escaped, genOk, loaded>>

mainVars ==
    <<env, pc, output, exitCode, mainMessage, objs, evp, sigs, results, run, region, call,
      callCount, lastSign, ratioLines>>

vars == <<backendVars, bench, mainVars>>

----------------------------------------------------------------------------
(* Bounds of the model *)

\* number of distinct keypairs the external key generators can produce
MaxKeys == 3
\* number of objects the OpenSSL provider can hold at once
MaxHandles == 3
\* messages are byte strings of length 1 over 0..MaxByte
MaxByte == 1
\* largest iteration count handed to Benchmark::run
MaxIterations == 3
\* largest latency, in microseconds, the clock reports for one iteration
MaxMicros == 3

(* Program constants *)
PUBLIC_KEY_BYTES == 1952
SECRET_KEY_BYTES == 4032
SIGNATURE_BYTES == 3309

----------------------------------------------------------------------------
(* Byte vectors (std::vector<uint8_t>) are sequences of bytes, written as  *)
(* their runs: [n |-> 3, b |-> 7] stands for the bytes 7, 7, 7.  Adjacent    *)
(* runs hold different bytes and no run is empty, so equal vectors are      *)
(* equal values.                                                            *)

\* std::vector<uint8_t>(n, b)
Vec(n, b) == IF n = 0 THEN <<>> ELSE <<[n |-> n, b |-> b]>>

RECURSIVE Size(_)
\* v.size()
Size(v) == IF v = <<>> THEN 0 ELSE v[1].n + Size(Tail(v))

RECURSIVE At(_, _)
\* v[i - 1], the i-th byte of v
At(v, i) == IF i <= v[1].n THEN v[1].b ELSE At(Tail(v), i - v[1].n)

\* the bytes of u followed by the bytes of v
Cat(u, v) ==
    IF u = <<>> THEN v
    ELSE IF v = <<>> THEN u
    ELSE IF u[Len(u)].b = v[1].b
    THEN SubSeq(u, 1, Len(u) - 1)
            \o <<[n |-> u[Len(u)].n + v[1].n, b |-> v[1].b]>> \o Tail(v)
    ELSE u \o v

AllZero(v) == \A i \in 1..Len(v) : v[i].b = 0

Messages == { Vec(1, b) : b \in 0..MaxByte }

KeyIds == 1..MaxKeys

----------------------------------------------------------------------------
(* The external lattice primitive, as an ideal signature scheme.  Keypair   *)
(* number k is the pair (PkOf(k), SkOf(k)); a signature is a byte string    *)
(* that determines the signing key and the message.                        *)

PkOf(k) == Vec(PUBLIC_KEY_BYTES, k)
SkOf(k) == Vec(SECRET_KEY_BYTES, k)

\* pqcrystals_dilithium3_ref_signature(sig, &siglen, m, mlen, NULL, 0, sk), return code 0
ref_signature(m, sk) == Cat(Vec(1, At(sk, 1)), m)

\* pqcrystals_dilithium3_ref_verify(sig, siglen, m, mlen, NULL, 0, pk) == 0
ref_verify(sig, m, pk) ==
    /\ Size(sig) = 1 + Size(m)
    /\ At(sig, 1) \in KeyIds
    /\ pk = PkOf(At(sig, 1))
    /\ sig = Cat(Vec(1, At(sig, 1)), m)

\* outcomes of one call of the lattice primitive
DilOutcomes == {"ok", "rc", "throw"}

----------------------------------------------------------------------------
(* DilithiumWrapper *)

\* DilithiumWrapper::DilithiumWrapper()
Dilithium_new ==
    [publicKey_     |-> Vec(PUBLIC_KEY_BYTES, 0),
     secretKey_     |-> Vec(SECRET_KEY_BYTES, 0),
     keysGenerated_ |-> FALSE]

Dilithium_hasKeys(d) == d.keysGenerated_

\* secureWipe whose loop stops one byte early
secureWipe_shortLoop(data) ==
    IF Size(data) > 0
    THEN Cat(Vec(Size(data) - 1, 0), Vec(1, At(data, Size(data))))
    ELSE data

\* DilithiumWrapper::secureWipe on a vector's storage
secureWipe(data) ==
    IF Size(data) > 0 THEN Vec(Size(data), 0) ELSE data

\* DilithiumWrapper::~DilithiumWrapper()
Dilithium_destroy(d) == [d EXCEPT !.secretKey_ = secureWipe(d.secretKey_)]

\* generateKeys that forgets to set keysGenerated_
Dilithium_generateKeys_noFlag(d, out, k, wrote) ==
    LET filled == [d EXCEPT !.publicKey_ = PkOf(k), !.secretKey_ = SkOf(k)]
        after  == IF out = "ok" \/ wrote THEN filled ELSE d
    IN  [obj |-> after, ret |-> (out = "ok"), prim |-> TRUE, raised |-> FALSE]

\* DilithiumWrapper::generateKeys(); out is the primitive's outcome, k the
\* keypair it produces, wrote whether a failing call had filled the buffers
Dilithium_generateKeys(d, out, k, wrote) ==
    LET filled == [d EXCEPT !.publicKey_ = PkOf(k), !.secretKey_ = SkOf(k)]
        after  == IF out = "ok" \/ wrote THEN filled ELSE d
    IN  IF out = "throw"                      \* catch (...) { return false; }
        THEN [obj |-> after, ret |-> FALSE, prim |-> TRUE, raised |-> FALSE]
        ELSE IF out = "rc"                    \* if (result != 0) return false;
        THEN [obj |-> after, ret |-> FALSE, prim |-> TRUE, raised |-> FALSE]
        ELSE [obj |-> [after EXCEPT !.keysGenerated_ = TRUE],
              ret |-> TRUE, prim |-> TRUE, raised |-> FALSE]

\* sign without the keysGenerated_ check
Dilithium_sign_noGuard(d, message, out) ==
    IF out = "ok"
    THEN [ret |-> ref_signature(message, d.secretKey_), prim |-> TRUE, raised |-> FALSE]
    ELSE [ret |-> <<>>, prim |-> TRUE, raised |-> FALSE]

\* DilithiumWrapper::sign(message)
Dilithium_sign(d, message, out) ==
    IF ~d.keysGenerated_
    THEN [ret |-> <<>>, prim |-> FALSE, raised |-> FALSE]
    ELSE IF out = "throw"                     \* catch (...) { return {}; }
    THEN [ret |-> <<>>, prim |-> TRUE, raised |-> FALSE]
    ELSE IF out = "rc"                        \* if (result != 0) return {};
    THEN [ret |-> <<>>, prim |-> TRUE, raised |-> FALSE]
    ELSE [ret |-> ref_signature(message, d.secretKey_),
          prim |-> TRUE, raised |-> FALSE]

\* verify whose handler lets the exception of the primitive leave the call
Dilithium_verify_rethrow(d, message, signature, out) ==
    IF ~d.keysGenerated_
    THEN [ret |-> FALSE, prim |-> FALSE, raised |-> FALSE]
    ELSE IF out = "throw"
    THEN [ret |-> FALSE, prim |-> TRUE, raised |-> TRUE]
    ELSE [ret |-> (out = "ok" /\ ref_verify(signature, message, d.publicKey_)),
          prim |-> TRUE, raised |-> FALSE]

\* DilithiumWrapper::verify(message, signature)
Dilithium_verify(d, message, signature, out) ==
    IF ~d.keysGenerated_
    THEN [ret |-> FALSE, prim |-> FALSE, raised |-> FALSE]
    ELSE IF out = "throw"                     \* catch (...) { return false; }
    THEN [ret |-> FALSE, prim |-> TRUE, raised |-> FALSE]
    ELSE [ret |-> (out = "ok" /\ ref_verify(signature, message, d.publicKey_)),
          prim |-> TRUE, raised |-> FALSE]

Dilithium_getPublicKey(d) == d.publicKey_

Dilithium_getSecretKey(d) == d.secretKey_

\* setPublicKey without the size check
Dilithium_setPublicKey_noCheck(d, pubkey) ==
    [obj |-> [d EXCEPT !.publicKey_ = pubkey], ret |-> TRUE]

\* DilithiumWrapper::setPublicKey(pubkey)
Dilithium_setPublicKey(d, pubkey) ==
    IF Size(pubkey) # PUBLIC_KEY_BYTES
    THEN [obj |-> d, ret |-> FALSE]
    ELSE [obj |-> [d EXCEPT !.publicKey_ = pubkey], ret |-> TRUE]

\* DilithiumWrapper::setSecretKey(seckey)
Dilithium_setSecretKey(d, seckey) ==
    IF Size(seckey) # SECRET_KEY_BYTES
    THEN [obj |-> d, ret |-> FALSE]
    ELSE [obj |-> [d EXCEPT !.secretKey_ = seckey, !.keysGenerated_ = TRUE],
          ret |-> TRUE]

----------------------------------------------------------------------------
(* Objects owned by the OpenSSL provider.  A cell is free or holds one      *)
(* object; NULL is handle 0.  doubleFree records a free of a handle that    *)
(* holds no object, pkeyFreed that some EVP_PKEY has been released.         *)

NULL == 0

Handles == 1..MaxHandles

FreeCell == [kind |-> "free", key |-> 0]

EmptyHeap ==
    [cells |-> [h \in Handles |-> FreeCell], doubleFree |-> FALSE, pkeyFreed |-> FALSE]

\* handle the provider returns for a new object, NULL when it cannot allocate
NewHandle(hp) ==
    IF \E h \in Handles : hp.cells[h].kind = "free"
    THEN CHOOSE h \in Handles :
            /\ hp.cells[h].kind = "free"
            /\ \A g \in Handles : hp.cells[g].kind = "free" => h <= g
    ELSE NULL

\* EVP_PKEY_CTX_new_id / EVP_MD_CTX_new / the EVP_PKEY made by EVP_PKEY_keygen
Alloc(hp, h, kind, key) ==
    [hp EXCEPT !.cells[h] = [kind |-> kind, key |-> key]]

\* EVP_PKEY_free / EVP_PKEY_CTX_free / EVP_MD_CTX_free
Free(hp, h) ==
    IF hp.cells[h].kind = "free"
    THEN [hp EXCEPT !.doubleFree = TRUE]
    ELSE [hp EXCEPT !.cells[h] = FreeCell,
                    !.pkeyFreed = (hp.pkeyFreed \/ hp.cells[h].kind = "pkey")]

Live(hp) == { h \in Handles : hp.cells[h].kind # "free" }

----------------------------------------------------------------------------
(* The external RSA primitive, as an ideal signature scheme: a signature    *)
(* is modulus-sized and determines the signing key and the message.         *)

\* EVP_DigestSign(mdctx, sig, &sigLen, m, mlen) > 0 with the key numbered key
rsa_signature(m, key, keySize) ==
    LET pad == (keySize \div 8) - 1 - Size(m)
    IN  Cat(Cat(Vec(1, key), m), Vec(IF pad > 0 THEN pad ELSE 0, 0))

\* EVP_DigestVerify(mdctx, sig, siglen, m, mlen) == 1 with the key numbered key
rsa_valid(sig, m, key, keySize) ==
    /\ key \in KeyIds
    /\ sig = rsa_signature(m, key, keySize)

\* the step of generateKeys / sign / verify at which the provider fails
RsaGenOutcomes == {"ok", "new", "init", "bits", "keygen"}
RsaSignOutcomes == {"ok", "new", "init", "len", "sign"}
RsaVerifyOutcomes == {"ok", "new", "init", "error"}

KeySizes == {2048, 3072}

----------------------------------------------------------------------------
(* RSABenchmark *)

\* RSABenchmark::RSABenchmark(keySize)
RSA_new(keySize) ==
    [keySize_ |-> keySize, pkey_ |-> NULL, signCtx_ |-> NULL, verifyCtx_ |-> NULL]

RSA_hasKeys(r) == r.pkey_ # NULL

\* RSABenchmark::cleanup()
RSA_cleanup(r, hp) ==
    LET h1 == IF r.signCtx_ # NULL THEN Free(hp, r.signCtx_) ELSE hp
        h2 == IF r.verifyCtx_ # NULL THEN Free(h1, r.verifyCtx_) ELSE h1
        h3 == IF r.pkey_ # NULL THEN Free(h2, r.pkey_) ELSE h2
    IN  [obj  |-> [r EXCEPT !.signCtx_ = NULL, !.verifyCtx_ = NULL, !.pkey_ = NULL],
         heap |-> h3]

\* RSABenchmark::~RSABenchmark()
RSA_destroy(r, hp) == RSA_cleanup(r, hp)

\* generateKeys that does not call cleanup() first
RSA_generateKeys_noCleanup(r, hp, out, k) ==
    LET ctx  == IF out = "new" THEN NULL ELSE NewHandle(hp)
        h1   == Alloc(hp, ctx, "pctx", 0)
        pk   == IF out = "keygen" THEN NULL ELSE NewHandle(h1)
        h2   == Alloc(h1, pk, "pkey", k)
    IN  IF ctx = NULL
        THEN [obj |-> r, heap |-> hp, ret |-> FALSE, prim |-> TRUE, raised |-> FALSE]
        ELSE IF out \in {"init", "bits"} \/ pk = NULL
        THEN [obj |-> r, heap |-> Free(h1, ctx), ret |-> FALSE,
              prim |-> TRUE, raised |-> FALSE]
        ELSE [obj |-> [r EXCEPT !.pkey_ = pk], heap |-> Free(h2, ctx),
              ret |-> TRUE, prim |-> TRUE, raised |-> FALSE]

\* RSABenchmark::generateKeys(); out is the failing step, k the keypair made
RSA_generateKeys(r, hp, out, k) ==
    LET c    == RSA_cleanup(r, hp)
        ctx  == IF out = "new" THEN NULL ELSE NewHandle(c.heap)
        h1   == Alloc(c.heap, ctx, "pctx", 0)
        pk   == IF out = "keygen" THEN NULL ELSE NewHandle(h1)
        h2   == Alloc(h1, pk, "pkey", k)
    IN  IF ctx = NULL
        THEN [obj |-> c.obj, heap |-> c.heap, ret |-> FALSE,
              prim |-> TRUE, raised |-> FALSE]
        ELSE IF out \in {"init", "bits"} \/ pk = NULL
        THEN [obj |-> c.obj, heap |-> Free(h1, ctx), ret |-> FALSE,
              prim |-> TRUE, raised |-> FALSE]
        ELSE [obj |-> [c.obj EXCEPT !.pkey_ = pk], heap |-> Free(h2, ctx),
              ret |-> TRUE, prim |-> TRUE, raised |-> FALSE]

\* RSABenchmark::sign(message)
RSA_sign(r, hp, message, out) ==
    LET mdctx == IF out = "new" THEN NULL ELSE NewHandle(hp)
        h1    == Alloc(hp, mdctx, "mdctx", 0)
    IN  IF r.pkey_ = NULL
        THEN [heap |-> hp, ret |-> <<>>, prim |-> FALSE, raised |-> FALSE]
        ELSE IF mdctx = NULL
        THEN [heap |-> hp, ret |-> <<>>, prim |-> TRUE, raised |-> FALSE]
        ELSE IF out \in {"init", "len", "sign"}
        THEN [heap |-> Free(h1, mdctx), ret |-> <<>>,
              prim |-> TRUE, raised |-> FALSE]
        ELSE [heap |-> Free(h1, mdctx),
              ret  |-> rsa_signature(message, hp.cells[r.pkey_].key, r.keySize_),
              prim |-> TRUE, raised |-> FALSE]

\* verify that returns (result != 0) instead of (result == 1)
RSA_verify_nonZero(r, hp, message, signature, out) ==
    LET mdctx == IF out = "new" THEN NULL ELSE NewHandle(hp)
        h1    == Alloc(hp, mdctx, "mdctx", 0)
    IN  IF r.pkey_ = NULL
        THEN [heap |-> hp, ret |-> FALSE, prim |-> FALSE, raised |-> FALSE]
        ELSE IF mdctx = NULL
        THEN [heap |-> hp, ret |-> FALSE, prim |-> TRUE, raised |-> FALSE]
        ELSE IF out = "init"
        THEN [heap |-> Free(h1, mdctx), ret |-> FALSE,
              prim |-> TRUE, raised |-> FALSE]
        ELSE [heap |-> Free(h1, mdctx),
              ret  |-> (out = "error" \/ rsa_valid(signature, message,
                                                  hp.cells[r.pkey_].key, r.keySize_)),
              prim |-> TRUE, raised |-> FALSE]

\* RSABenchmark::verify(message, signature)
RSA_verify(r, hp, message, signature, out) ==
    LET mdctx == IF out = "new" THEN NULL ELSE NewHandle(hp)
        h1    == Alloc(hp, mdctx, "mdctx", 0)
    IN  IF r.pkey_ = NULL
        THEN [heap |-> hp, ret |-> FALSE, prim |-> FALSE, raised |-> FALSE]
        ELSE IF mdctx = NULL
        THEN [heap |-> hp, ret |-> FALSE, prim |-> TRUE, raised |-> FALSE]
        ELSE IF out = "init"
        THEN [heap |-> Free(h1, mdctx), ret |-> FALSE,
              prim |-> TRUE, raised |-> FALSE]
        ELSE [heap |-> Free(h1, mdctx),
              ret  |-> (out = "ok" /\ rsa_valid(signature, message,
                                               hp.cells[r.pkey_].key, r.keySize_)),
              prim |-> TRUE, raised |-> FALSE]

----------------------------------------------------------------------------
(* IEEE-754 binary64 arithmetic, as the build's `double` computes it       *)
(* (round to nearest, ties to even).  A natural number is the sequence of   *)
(* its digits in base LimbBase, least significant first, without leading    *)
(* zero digits; a double is (-1)^sgn * m * 2^e with m zero or exactly       *)
(* MantBits bits long.  The latencies of this program stay far inside the   *)
(* normal exponent range, so neither overflow nor subnormals are modelled.  *)

MantBits == 53

LimbBase == 2^15

RECURSIVE Norm(_)
\* drop the zero digits at the most significant end
Norm(a) ==
    IF a = <<>> THEN <<>>
    ELSE IF a[Len(a)] = 0 THEN Norm(SubSeq(a, 1, Len(a) - 1))
    ELSE a

RECURSIVE NatToLimbs(_)
NatToLimbs(n) ==
    IF n = 0 THEN <<>> ELSE <<n % LimbBase>> \o NatToLimbs(n \div LimbBase)

RECURSIVE SmallBitLen(_)
\* number of bits of a small natural number
SmallBitLen(n) == IF n = 0 THEN 0 ELSE 1 + SmallBitLen(n \div 2)

\* number of bits of one digit
LimbBits == SmallBitLen(LimbBase) - 1

\* number of bits of a
BitLen(a) ==
    IF a = <<>> THEN 0 ELSE LimbBits * (Len(a) - 1) + SmallBitLen(a[Len(a)])

LimbAt(a, i) == IF i >= 1 /\ i <= Len(a) THEN a[i] ELSE 0

\* bit number i of a, bit 1 being the least significant
BitAt(a, i) == (LimbAt(a, ((i - 1) \div LimbBits) + 1) \div 2^((i - 1) % LimbBits)) % 2

RECURSIVE BAddFrom(_, _, _, _)
\* digits i.. of a + b + carry c
BAddFrom(a, b, i, c) ==
    IF i > Len(a) /\ i > Len(b)
    THEN (IF c = 0 THEN <<>> ELSE <<c>>)
    ELSE LET t == LimbAt(a, i) + LimbAt(b, i) + c
         IN  <<t % LimbBase>> \o BAddFrom(a, b, i + 1, t \div LimbBase)

BAdd(a, b) == BAddFrom(a, b, 1, 0)

RECURSIVE BSubFrom(_, _, _, _)
\* digits i.. of a - b - borrow c, for a >= b
BSubFrom(a, b, i, c) ==
    IF i > Len(a) THEN <<>>
    ELSE LET t == LimbAt(a, i) - LimbAt(b, i) - c
         IN  <<t % LimbBase>> \o BSubFrom(a, b, i + 1, IF t < 0 THEN 1 ELSE 0)

BSub(a, b) == Norm(BSubFrom(a, b, 1, 0))

RECURSIVE BLessFrom(_, _, _)
\* a < b for numbers of equal length, comparing from digit i downwards
BLessFrom(a, b, i) ==
    IF i = 0 THEN FALSE
    ELSE IF a[i] # b[i] THEN a[i] < b[i]
    ELSE BLessFrom(a, b, i - 1)

BLess(a, b) ==
    IF Len(a) # Len(b) THEN Len(a) < Len(b) ELSE BLessFrom(a, b, Len(a))

RECURSIVE BMulSmallFrom(_, _, _, _)
\* digits i.. of a * s + carry c, for s <= LimbBase
BMulSmallFrom(a, s, i, c) ==
    IF i > Len(a) THEN (IF c = 0 THEN <<>> ELSE <<c>>)
    ELSE LET t == a[i] * s + c
         IN  <<t % LimbBase>> \o BMulSmallFrom(a, s, i + 1, t \div LimbBase)

BMulSmall(a, s) == IF s = 0 THEN <<>> ELSE BMulSmallFrom(a, s, 1, 0)

RECURSIVE BMul(_, _)
BMul(a, b) ==
    IF a = <<>> \/ b = <<>> THEN <<>>
    ELSE LET rest == BMul(Tail(a), b)
         IN  BAdd(BMulSmall(b, a[1]), IF rest = <<>> THEN <<>> ELSE <<0>> \o rest)

RECURSIVE BDivFrom(_, _, _, _, _)
\* long division of a by d <= 2 * LimbBase, from digit i downwards, with
\* remainder r and quotient digits q so far
BDivFrom(a, d, i, r, q) ==
    IF i = 0 THEN [q |-> Norm(q), r |-> r]
    ELSE LET t == r * LimbBase + a[i]
         IN  BDivFrom(a, d, i - 1, t % d, <<t \div d>> \o q)

BDivSmall(a, d) == BDivFrom(a, d, Len(a), 0, <<>>)

\* a * 2^k
ShiftL(a, k) ==
    IF a = <<>> THEN <<>>
    ELSE [i \in 1..(k \div LimbBits) |-> 0] \o BMulSmall(a, 2^(k % LimbBits))

\* a \div 2^k
ShiftR(a, k) ==
    IF k \div LimbBits >= Len(a) THEN <<>>
    ELSE BDivSmall(SubSeq(a, (k \div LimbBits) + 1, Len(a)), 2^(k % LimbBits)).q

RECURSIVE BSqrtFrom(_, _, _)
\* integer square root: n the rest, res the root so far, bit a power of 4
BSqrtFrom(n, res, bit) ==
    IF bit = <<>> THEN [q |-> res, r |-> n]
    ELSE LET t == BAdd(res, bit)
         IN  IF ~BLess(n, t)
             THEN BSqrtFrom(BSub(n, t), BAdd(ShiftR(res, 1), bit), ShiftR(bit, 2))
             ELSE BSqrtFrom(n, ShiftR(res, 1), ShiftR(bit, 2))

\* floor of the square root of n and the remainder n - root^2
BSqrt(n) ==
    IF n = <<>> THEN [q |-> <<>>, r |-> <<>>]
    ELSE BSqrtFrom(n, <<>>, ShiftL(<<1>>, 2 * ((BitLen(n) - 1) \div 2)))

DZero == [sgn |-> 0, m |-> <<>>, e |-> 0]

\* the double nearest to (-1)^sgn * (m + f) * 2^e, where 0 <= f < 1 and
\* sticky tells f > 0; ties to even
RoundToDouble(sgn, m, e, sticky) ==
    LET n == BitLen(m)
    IN  IF n = 0 THEN DZero
        ELSE IF n <= MantBits
        THEN [sgn |-> sgn, m |-> ShiftL(m, MantBits - n), e |-> e - (MantBits - n)]
        ELSE LET drop  == n - MantBits
                 kept  == ShiftR(m, drop)
                 guard == BitAt(m, drop)
                 rest  == sticky \/ ShiftL(ShiftR(m, drop - 1), drop - 1) # m
                 up    == guard = 1 /\ (rest \/ BitAt(kept, 1) = 1)
                 inc   == IF up THEN BAdd(kept, <<1>>) ELSE kept
             IN  IF BitLen(inc) > MantBits
                 THEN [sgn |-> sgn, m |-> ShiftR(inc, 1), e |-> e + drop + 1]
                 ELSE [sgn |-> sgn, m |-> inc, e |-> e + drop]

\* static_cast<double>(n) for a non-negative integer n
DFromInt(n) == RoundToDouble(0, NatToLimbs(n), 0, FALSE)

DNeg(a) == IF a.m = <<>> THEN a ELSE [a EXCEPT !.sgn = 1 - a.sgn]

\* a + b
DAdd(a, b) ==
    IF a.m = <<>> THEN b
    ELSE IF b.m = <<>> THEN a
    ELSE LET e  == IF a.e < b.e THEN a.e ELSE b.e
             am == ShiftL(a.m, a.e - e)
             bm == ShiftL(b.m, b.e - e)
         IN  IF a.sgn = b.sgn THEN RoundToDouble(a.sgn, BAdd(am, bm), e, FALSE)
             ELSE IF BLess(am, bm) THEN RoundToDouble(b.sgn, BSub(bm, am), e, FALSE)
             ELSE RoundToDouble(a.sgn, BSub(am, bm), e, FALSE)

\* a - b
DSub(a, b) == DAdd(a, DNeg(b))

\* a * b
DMul(a, b) ==
    RoundToDouble((a.sgn + b.sgn) % 2, BMul(a.m, b.m), a.e + b.e, FALSE)

\* a / d for a double d that holds the integer d, 0 < d <= 2 * LimbBase
DDivInt(a, d) ==
    LET qr == BDivSmall(ShiftL(a.m, 2 * LimbBits), d)
    IN  RoundToDouble(a.sgn, qr.q, a.e - 2 * LimbBits, qr.r # 0)

\* std::sqrt(a) for a >= 0
DSqrt(a) ==
    LET odd == a.e % 2 = 1
        m2  == IF odd THEN ShiftL(a.m, 1) ELSE a.m
        e2  == IF odd THEN a.e - 1 ELSE a.e
        s   == BSqrt(ShiftL(m2, 4 * LimbBits))
    IN  RoundToDouble(0, s.q, (e2 \div 2) - 2 * LimbBits, s.r # <<>>)

\* a < b
DLess(a, b) ==
    IF a.m = <<>> THEN b.m # <<>> /\ b.sgn = 0
    ELSE IF b.m = <<>> THEN a.sgn = 1
    ELSE IF a.sgn # b.sgn THEN a.sgn = 1
    ELSE LET lt == IF a.e # b.e THEN a.e < b.e ELSE BLess(a.m, b.m)
             gt == IF a.e # b.e THEN a.e > b.e ELSE BLess(b.m, a.m)
         IN  IF a.sgn = 0 THEN lt ELSE gt

DLeq(a, b) == ~DLess(b, a)

----------------------------------------------------------------------------
(* Benchmark *)

RECURSIVE Accumulate(_, _, _)
\* std::accumulate(times.begin(), times.end(), init) from element i on
Accumulate(values, i, acc) ==
    IF i > Len(values) THEN acc
    ELSE Accumulate(values, i + 1, DAdd(acc, values[i]))

RECURSIVE MinElement(_, _, _)
\* *std::min_element: the first element no other element is less than
MinElement(values, i, best) ==
    IF i > Len(values) THEN best
    ELSE MinElement(values, i + 1, IF DLess(values[i], best) THEN values[i] ELSE best)

RECURSIVE MaxElement(_, _, _)
\* *std::max_element: the first element that is less than no other element
MaxElement(values, i, best) ==
    IF i > Len(values) THEN best
    ELSE MaxElement(values, i + 1, IF DLess(best, values[i]) THEN values[i] ELSE best)

RECURSIVE SumSquaredDiff(_, _, _, _)
\* the loop of calculateStdDev from element i on
SumSquaredDiff(values, mean, i, acc) ==
    IF i > Len(values) THEN acc
    ELSE LET diff == DSub(values[i], mean)
         IN  SumSquaredDiff(values, mean, i + 1, DAdd(acc, DMul(diff, diff)))

\* Benchmark::calculateStdDev(values, mean)
calculateStdDev(values, mean) ==
    DSqrt(DDivInt(SumSquaredDiff(values, mean, 1, DZero), Len(values)))

\* duration.count() / 1000.0 for a duration of micros microseconds
ToMilliseconds(micros) == DDivInt(DFromInt(micros), 1000)

\* the statistics Benchmark::run computes over its samples, and its Result
Reduce(times, iterations) ==
    LET sum     == Accumulate(times, 1, DZero)
        mean    == DDivInt(sum, Len(times))
        minTime == MinElement(times, 2, times[1])
        maxTime == MaxElement(times, 2, times[1])
        stdDev  == calculateStdDev(times, mean)
    IN  [averageTime |-> mean, minTime |-> minTime, maxTime |-> maxTime,
         stdDev |-> stdDev, iterations |-> iterations]

NoResult == [iterations |-> 0]

BenchIdle == [pc |-> "idle", iterations |-> 0, times |-> <<>>, result |-> NoResult]

----------------------------------------------------------------------------
(* The state machine: one backend object and the calls made on it. *)

\* lengths of the buffers handed to the key setters
KeyLengths ==
    {0, PUBLIC_KEY_BYTES - 1, PUBLIC_KEY_BYTES, SECRET_KEY_BYTES, SECRET_KEY_BYTES + 1}

\* buffers handed to the key setters
KeyInputs == { Vec(n, b) : n \in KeyLengths, b \in 0..MaxKeys }

\* signatures handed to verify of the lattice backend
DilSigInputs == {<<>>} \cup { Cat(Vec(1, k), m) : k \in 0..MaxKeys, m \in Messages }

\* signatures handed to verify of the RSA backend
RsaSigInputs(keySize) ==
    {<<>>} \cup { rsa_signature(m, k, keySize) : k \in 0..MaxKeys, m \in Messages }

\* keypairs a key generator can produce: never one the object already holds
FreshDil(d) == KeyIds \ {At(d.publicKey_, 1), At(d.secretKey_, 1)}
FreshRsa(r, hp) == KeyIds \ { hp.cells[h].key : h \in Handles }

----------------------------------------------------------------------------
(* main(): constants, locals and the calls it makes on the backends *)

\* MESSAGE_SIZE of runComprehensiveBenchmark
MESSAGE_SIZE == 1024

\* iteration count of the sign and verify benchmarks (ITERATIONS, 100 in the build)
BenchIterations == 2
\* iteration count of the key generation benchmarks (KEYGEN_ITERATIONS, 10 in the build)
KeygenIterations == 1
\* largest number of microseconds the clock reports for one timed region
MaxLatency == 1

\* the benchmark phases of runComprehensiveBenchmark, in program order
Backends == <<"Dilithium3", "RSA-2048", "RSA-3072">>
\* the benchmarks of one phase, in program order
Ops == <<"keygen", "sign", "verify">>
\* the backend objects of main(): demo is the dilithium of demonstrateBasicUsage
Locals == {"demo", "Dilithium3", "RSA-2048", "RSA-3072"}

IsLattice(b) == b \in {"demo", "Dilithium3"}

\* DilithiumWrapper dilithium; RSABenchmark rsa2048(2048); RSABenchmark rsa3072(3072);
NewObject(b) ==
    IF IsLattice(b) THEN Dilithium_new
    ELSE IF b = "RSA-2048" THEN RSA_new(2048) ELSE RSA_new(3072)

\* what the environment varies in a run of main(): the primitives' failures
\* under a clock too coarse to resolve any operation, or the latency of one
\* operation of fault-free primitives
Envs == {"faults", "keygen", "sign", "verify"}

DilFaults(e) == IF e = "faults" THEN DilOutcomes ELSE {"ok"}
RsaGenFaults(e) == IF e = "faults" THEN RsaGenOutcomes ELSE {"ok"}
RsaSignFaults(e) == IF e = "faults" THEN RsaSignOutcomes ELSE {"ok"}
RsaVerifyFaults(e) == IF e = "faults" THEN RsaVerifyOutcomes ELSE {"ok"}

\* microseconds between the two clock reads around one call of operation op
Elapsed(e, op) == IF e = op THEN 0..MaxLatency ELSE {0}

\* the keypair a key generator produces next: one that is not in use
NextDil(d) == CHOOSE k \in FreshDil(d) : \A j \in FreshDil(d) : k <= j
NextRsa(r, hp) == CHOOSE k \in FreshRsa(r, hp) : \A j \in FreshRsa(r, hp) : k <= j

\* obj.generateKeys() on backend object b: every outcome the call can have
generateKeysOn(b, obj, hp, e) ==
    IF IsLattice(b)
    THEN { LET r == Dilithium_generateKeys(obj, o, NextDil(obj), w)
           IN  [obj |-> r.obj, heap |-> hp, ret |-> r.ret, raised |-> r.raised]
           : o \in DilFaults(e), w \in BOOLEAN }
    ELSE { LET r == RSA_generateKeys(obj, hp, o, NextRsa(obj, hp))
           IN  [obj |-> r.obj, heap |-> r.heap, ret |-> r.ret, raised |-> r.raised]
           : o \in RsaGenFaults(e) }

\* obj.sign(m) on backend object b: every outcome the call can have
signOn(b, obj, hp, m, e) ==
    IF IsLattice(b)
    THEN { LET r == Dilithium_sign(obj, m, o)
           IN  [heap |-> hp, ret |-> r.ret, raised |-> r.raised]
           : o \in DilFaults(e) }
    ELSE { LET r == RSA_sign(obj, hp, m, o)
           IN  [heap |-> r.heap, ret |-> r.ret, raised |-> r.raised]
           : o \in RsaSignFaults(e) }

\* obj.verify(m, sig) on backend object b: every outcome the call can have
verifyOn(b, obj, hp, m, sig, e) ==
    IF IsLattice(b)
    THEN { LET r == Dilithium_verify(obj, m, sig, o)
           IN  [heap |-> hp, ret |-> r.ret, raised |-> r.raised]
           : o \in DilFaults(e) }
    ELSE { LET r == RSA_verify(obj, hp, m, sig, o)
           IN  [heap |-> r.heap, ret |-> r.ret, raised |-> r.raised]
           : o \in RsaVerifyFaults(e) }

\* ~DilithiumWrapper() / ~RSABenchmark() of backend object b
destroyOn(b, obj, hp) ==
    IF IsLattice(b)
    THEN [obj |-> Dilithium_destroy(obj), heap |-> hp]
    ELSE RSA_destroy(obj, hp)

\* the key material object b signs and verifies with
KeyHeld(b, obj, hp) ==
    IF IsLattice(b)
    THEN [has |-> obj.keysGenerated_, pk |-> obj.publicKey_, sk |-> obj.secretKey_]
    ELSE [has |-> obj.pkey_ # NULL,
          pk  |-> IF obj.pkey_ # NULL THEN hp.cells[obj.pkey_].key ELSE 0,
          sk  |-> IF obj.pkey_ # NULL THEN hp.cells[obj.pkey_].key ELSE 0]

RECURSIVE FromBytes(_)
\* std::vector<uint8_t>(s.begin(), s.end()) for the characters s
FromBytes(s) == IF s = <<>> THEN <<>> ELSE Cat(Vec(1, Head(s)), FromBytes(Tail(s)))

\* "Hello, Post-Quantum World!"
DemoMessage ==
    FromBytes(<<72, 101, 108, 108, 111, 44, 32, 80, 111, 115, 116, 45, 81, 117, 97,
                110, 116, 117, 109, 32, 87, 111, 114, 108, 100, 33>>)

\* message[0] ^= 0x01
FlipLowBit(m) ==
    LET b    == m[1].b
        rest == IF m[1].n = 1 THEN Tail(m)
                ELSE <<[n |-> m[1].n - 1, b |-> b]>> \o Tail(m)
    IN  Cat(Vec(1, IF b % 2 = 0 THEN b + 1 ELSE b - 1), rest)

\* Benchmark::generateRandomMessage(size): the messages the model draws
generateRandomMessage(size) == { Vec(size, b) : b \in 0..MaxByte }

\* a position of main()
Pos(fn, at, b, op) == [fn |-> fn, at |-> at, b |-> b, op |-> op]

NotRunning == Pos("none", "none", "none", "none")

NoCall == [fn |-> "none", b |-> "none", timed |-> FALSE, message |-> <<>>,
           signature |-> <<>>, key |-> [has |-> FALSE, pk |-> 0, sk |-> 0]]

NoRun == [n |-> 0, times |-> <<>>, calls |-> 0]

NoRegion == [open |-> FALSE, calls |-> 0, outputs |-> 0, closed |-> 0, overlap |-> FALSE]

\* the locals of main() and of the functions it calls, before any statement
MainInit(e, position) ==
    /\ env = e
    /\ pc = position
    /\ output = <<>>
    /\ exitCode = -1
    /\ mainMessage = <<>>
    /\ objs = [b \in Locals |-> NewObject(b)]
    /\ evp = EmptyHeap
    /\ sigs = [b \in Locals |-> <<>>]
    /\ results = [b \in Locals |-> [op \in {"keygen", "sign", "verify"} |-> NoResult]]
    /\ run = NoRun
    /\ region = NoRegion
    /\ call = NoCall
    /\ callCount = [b \in Locals |-> [generateKeys |-> 0, sign |-> 0, verify |-> 0]]
    /\ lastSign = [b \in Locals |->
                      [message |-> <<>>, ret |-> <<>>,
                       key |-> KeyHeld(b, NewObject(b), EmptyHeap)]]
    /\ ratioLines = <<>>

\* No call of main() is in progress: none of its locals exists. The
\* specifications of one backend object and of Benchmark::run start here.
MainNotStarted ==
    /\ env = "none"
    /\ pc = NotRunning
    /\ output = <<>>
    /\ exitCode = -1
    /\ mainMessage = <<>>
    /\ objs = <<>>
    /\ evp = EmptyHeap
    /\ sigs = <<>>
    /\ results = <<>>
    /\ run = NoRun
    /\ region = NoRegion
    /\ call = NoCall
    /\ callCount = <<>>
    /\ lastSign = <<>>
    /\ ratioLines = <<>>

----------------------------------------------------------------------------
(* The backend under test: initial state and calls *)

Init ==
    /\ backend \in {"dilithium", "rsa"}
    /\ alive = TRUE
    /\ dil = Dilithium_new
    /\ \E ks \in KeySizes :
          /\ backend = "dilithium" => ks = 2048
          /\ rsa = RSA_new(ks)
    /\ heap = EmptyHeap
    /\ lastOp = "new"
    /\ lastOut = "none"
    /\ ret = "void"
    /\ primCalled = FALSE
    /\ escaped = FALSE
    /\ genOk = FALSE
    /\ loaded = {}
    /\ bench = BenchIdle
    /\ MainNotStarted

\* dilithium.generateKeys()
DilGenerateKeys ==
    /\ backend = "dilithium" /\ alive
    /\ \E out \in DilOutcomes, k \in FreshDil(dil), wrote \in BOOLEAN :
          LET r == Dilithium_generateKeys(dil, out, k, wrote)
          IN  /\ dil' = r.obj
              /\ lastOp' = "generateKeys"
              /\ lastOut' = out
              /\ ret' = r.ret
              /\ primCalled' = r.prim
              /\ escaped' = r.raised
              /\ genOk' = r.ret
              /\ loaded' = IF r.ret THEN {"pk", "sk"} ELSE loaded
    /\ UNCHANGED <<backend, alive, rsa, heap, bench, mainVars>>

\* dilithium.sign(m)
DilSign ==
    /\ backend = "dilithium" /\ alive
    /\ \E m \in Messages, out \in DilOutcomes :
          LET r == Dilithium_sign(dil, m, out)
          IN  /\ lastOp' = "sign"
              /\ lastOut' = out
              /\ ret' = r.ret
              /\ primCalled' = r.prim
              /\ escaped' = r.raised
    /\ UNCHANGED <<backend, alive, dil, rsa, heap, genOk, loaded, bench, mainVars>>

\* dilithium.verify(m, sig)
DilVerify ==
    /\ backend = "dilithium" /\ alive
    /\ \E m \in Messages, sig \in DilSigInputs, out \in DilOutcomes :
          LET r == Dilithium_verify(dil, m, sig, out)
          IN  /\ lastOp' = "verify"
              /\ lastOut' = out
              /\ ret' = r.ret
              /\ primCalled' = r.prim
              /\ escaped' = r.raised
    /\ UNCHANGED <<backend, alive, dil, rsa, heap, genOk, loaded, bench, mainVars>>

\* dilithium.getPublicKey()
DilGetPublicKey ==
    /\ backend = "dilithium" /\ alive
    /\ lastOp' = "getPublicKey"
    /\ lastOut' = "none"
    /\ ret' = Dilithium_getPublicKey(dil)
    /\ primCalled' = FALSE
    /\ escaped' = FALSE
    /\ UNCHANGED <<backend, alive, dil, rsa, heap, genOk, loaded, bench, mainVars>>

\* dilithium.getSecretKey()
DilGetSecretKey ==
    /\ backend = "dilithium" /\ alive
    /\ lastOp' = "getSecretKey"
    /\ lastOut' = "none"
    /\ ret' = Dilithium_getSecretKey(dil)
    /\ primCalled' = FALSE
    /\ escaped' = FALSE
    /\ UNCHANGED <<backend, alive, dil, rsa, heap, genOk, loaded, bench, mainVars>>

\* dilithium.setPublicKey(b), b any buffer or the one getPublicKey() returns
DilSetPublicKey ==
    /\ backend = "dilithium" /\ alive
    /\ \E b \in KeyInputs \cup {Dilithium_getPublicKey(dil)} :
          LET r == Dilithium_setPublicKey(dil, b)
          IN  /\ dil' = r.obj
              /\ lastOp' = "setPublicKey"
              /\ ret' = r.ret
              /\ genOk' = (genOk /\ dil' = dil)
              /\ loaded' = IF r.ret THEN loaded \cup {"pk"} ELSE loaded
    /\ lastOut' = "none"
    /\ primCalled' = FALSE
    /\ escaped' = FALSE
    /\ UNCHANGED <<backend, alive, rsa, heap, bench, mainVars>>

\* dilithium.setSecretKey(b), b any buffer or the one getSecretKey() returns
DilSetSecretKey ==
    /\ backend = "dilithium" /\ alive
    /\ \E b \in KeyInputs \cup {Dilithium_getSecretKey(dil)} :
          LET r == Dilithium_setSecretKey(dil, b)
          IN  /\ dil' = r.obj
              /\ lastOp' = "setSecretKey"
              /\ ret' = r.ret
              /\ genOk' = (genOk /\ dil' = dil)
              /\ loaded' = IF r.ret THEN loaded \cup {"sk"} ELSE loaded
    /\ lastOut' = "none"
    /\ primCalled' = FALSE
    /\ escaped' = FALSE
    /\ UNCHANGED <<backend, alive, rsa, heap, bench, mainVars>>

\* the DilithiumWrapper goes out of scope
DilDestroy ==
    /\ backend = "dilithium" /\ alive
    /\ dil' = Dilithium_destroy(dil)
    /\ alive' = FALSE
    /\ lastOp' = "destroy"
    /\ lastOut' = "none"
    /\ ret' = "void"
    /\ primCalled' = FALSE
    /\ escaped' = FALSE
    /\ genOk' = FALSE
    /\ UNCHANGED <<backend, rsa, heap, loaded, bench, mainVars>>

\* rsa.generateKeys()
RsaGenerateKeys ==
    /\ backend = "rsa" /\ alive
    /\ \E out \in RsaGenOutcomes, k \in FreshRsa(rsa, heap) :
          LET r == RSA_generateKeys(rsa, heap, out, k)
          IN  /\ rsa' = r.obj
              /\ heap' = r.heap
              /\ lastOp' = "generateKeys"
              /\ lastOut' = out
              /\ ret' = r.ret
              /\ primCalled' = r.prim
              /\ escaped' = r.raised
              /\ genOk' = r.ret
    /\ UNCHANGED <<backend, alive, dil, loaded, bench, mainVars>>

\* rsa.sign(m)
RsaSign ==
    /\ backend = "rsa" /\ alive
    /\ \E m \in Messages, out \in RsaSignOutcomes :
          LET r == RSA_sign(rsa, heap, m, out)
          IN  /\ heap' = r.heap
              /\ lastOp' = "sign"
              /\ lastOut' = out
              /\ ret' = r.ret
              /\ primCalled' = r.prim
              /\ escaped' = r.raised
    /\ UNCHANGED <<backend, alive, dil, rsa, genOk, loaded, bench, mainVars>>

\* rsa.verify(m, sig)
RsaVerify ==
    /\ backend = "rsa" /\ alive
    /\ \E m \in Messages, sig \in RsaSigInputs(rsa.keySize_), out \in RsaVerifyOutcomes :
          LET r == RSA_verify(rsa, heap, m, sig, out)
          IN  /\ heap' = r.heap
              /\ lastOp' = "verify"
              /\ lastOut' = out
              /\ ret' = r.ret
              /\ primCalled' = r.prim
              /\ escaped' = r.raised
    /\ UNCHANGED <<backend, alive, dil, rsa, genOk, loaded, bench, mainVars>>

\* the RSABenchmark goes out of scope
RsaDestroy ==
    /\ backend = "rsa" /\ alive
    /\ LET r == RSA_destroy(rsa, heap)
       IN  /\ rsa' = r.obj
           /\ heap' = r.heap
    /\ alive' = FALSE
    /\ lastOp' = "destroy"
    /\ lastOut' = "none"
    /\ ret' = "void"
    /\ primCalled' = FALSE
    /\ escaped' = FALSE
    /\ genOk' = FALSE
    /\ UNCHANGED <<backend, dil, loaded, bench, mainVars>>

Next ==
    \/ DilGenerateKeys
    \/ DilSign
    \/ DilVerify
    \/ DilGetPublicKey
    \/ DilGetSecretKey
    \/ DilSetPublicKey
    \/ DilSetSecretKey
    \/ DilDestroy
    \/ RsaGenerateKeys
    \/ RsaSign
    \/ RsaVerify
    \/ RsaDestroy

Spec == Init /\ [][Next]_vars

----------------------------------------------------------------------------
(* Properties of the backends *)

HasKeys == IF backend = "dilithium" THEN Dilithium_hasKeys(dil) ELSE RSA_hasKeys(rsa)

\* C1: with no keypair loaded, on either backend, sign(m) returns the empty
\* byte sequence and verify(m, sig) returns false for every m and sig, and
\* neither invokes the external primitive.
C1_NoKeysBehaviour ==
    (alive /\ ~HasKeys) =>
        IF backend = "dilithium"
        THEN /\ \A m \in Messages, out \in DilOutcomes :
                    LET r == Dilithium_sign(dil, m, out)
                    IN  r.ret = <<>> /\ ~r.prim
             /\ \A m \in Messages, sig \in DilSigInputs, out \in DilOutcomes :
                    LET r == Dilithium_verify(dil, m, sig, out)
                    IN  r.ret = FALSE /\ ~r.prim
        ELSE /\ \A m \in Messages, out \in RsaSignOutcomes :
                    LET r == RSA_sign(rsa, heap, m, out)
                    IN  r.ret = <<>> /\ ~r.prim
             /\ \A m \in Messages, sig \in RsaSigInputs(rsa.keySize_),
                   out \in RsaVerifyOutcomes :
                    LET r == RSA_verify(rsa, heap, m, sig, out)
                    IN  r.ret = FALSE /\ ~r.prim

\* sign was called on a backend without keys, at a moment the primitive
\* would have succeeded, and returned the empty sequence
C1_Witness ==
    /\ alive /\ ~HasKeys
    /\ lastOp = "sign" /\ lastOut = "ok"
    /\ ret = <<>> /\ ~primCalled

\* C2: on the lattice backend, set_public_key(b) with |b| # 1952 and
\* set_secret_key(b) with |b| # 4032 return false and leave the public-key
\* buffer, the secret-key buffer and the keys-generated flag unchanged.
C2_SizeMismatchRejected ==
    (backend = "dilithium" /\ alive) =>
        \A b \in KeyInputs :
            /\ Size(b) # PUBLIC_KEY_BYTES =>
                  Dilithium_setPublicKey(dil, b) = [obj |-> dil, ret |-> FALSE]
            /\ Size(b) # SECRET_KEY_BYTES =>
                  Dilithium_setSecretKey(dil, b) = [obj |-> dil, ret |-> FALSE]

\* a setter has just rejected a buffer on a backend that holds a generated keypair
C2_Witness ==
    /\ backend = "dilithium" /\ alive
    /\ lastOp \in {"setPublicKey", "setSecretKey"} /\ ret = FALSE
    /\ genOk /\ dil.publicKey_ = PkOf(1) /\ dil.secretKey_ = SkOf(1)

\* has_keys(), sign and verify answer the same on the objects d and e
SameBehaviour(d, e) ==
    /\ Dilithium_hasKeys(d) = Dilithium_hasKeys(e)
    /\ \A m \in Messages, out \in DilOutcomes :
          Dilithium_sign(d, m, out) = Dilithium_sign(e, m, out)
    /\ \A m \in Messages, sig \in DilSigInputs, out \in DilOutcomes :
          Dilithium_verify(d, m, sig, out) = Dilithium_verify(e, m, sig, out)

\* C3: on the lattice backend, in every reachable state,
\* set_public_key(get_public_key()) and set_secret_key(get_secret_key())
\* return true and leave has_keys(), sign and verify answering as before.
C3_ImportRoundTrip ==
    (backend = "dilithium" /\ alive) =>
        LET p == Dilithium_setPublicKey(dil, Dilithium_getPublicKey(dil))
            q == Dilithium_setSecretKey(dil, Dilithium_getSecretKey(dil))
        IN  /\ p.ret /\ SameBehaviour(dil, p.obj)
            /\ q.ret /\ SameBehaviour(dil, q.obj)

\* C4: on either backend, while the keypair is the one a successful
\* generate_keys() left, verify(m, sign(m)) is true for every message m
\* (the primitive's sign and verify steps succeeding).
C4_SignThenVerify ==
    (alive /\ genOk) =>
        IF backend = "dilithium"
        THEN \A m \in Messages :
                Dilithium_verify(dil, m, Dilithium_sign(dil, m, "ok").ret, "ok").ret
        ELSE \A m \in Messages :
                RSA_verify(rsa, heap, m, RSA_sign(rsa, heap, m, "ok").ret, "ok").ret

\* verify has just accepted a signature under a freshly generated keypair
C4_Witness ==
    /\ alive /\ genOk
    /\ lastOp = "verify" /\ ret = TRUE

\* C6: on the RSA backend no provider object is freed twice, between calls
\* the only object still allocated is the keypair the backend holds (the
\* key-generation and digest contexts and every prior keypair are freed),
\* and nothing is allocated after destruction.
C6_ResourcesFreedOnce ==
    backend = "rsa" =>
        /\ ~heap.doubleFree
        /\ Live(heap) = (IF rsa.pkey_ # NULL THEN {rsa.pkey_} ELSE {})
        /\ rsa.pkey_ # NULL => heap.cells[rsa.pkey_].kind = "pkey"
        /\ ~alive => Live(heap) = {}

\* an RSA backend that had held a keypair has been destroyed
C6_Witness ==
    /\ backend = "rsa" /\ ~alive
    /\ heap.pkeyFreed /\ Live(heap) = {}

\* C7: on either backend, when a step of the external primitive fails inside
\* generate_keys, sign or verify, the call returns false (generate_keys,
\* verify) or the empty sequence (sign) and no exception leaves the call.
C7_FailuresAreBenign ==
    /\ ~escaped
    /\ (alive /\ backend = "dilithium") =>
          /\ \A out \in DilOutcomes \ {"ok"}, k \in FreshDil(dil), w \in BOOLEAN :
                LET r == Dilithium_generateKeys(dil, out, k, w)
                IN  r.ret = FALSE /\ ~r.raised
          /\ \A out \in DilOutcomes \ {"ok"}, m \in Messages :
                LET r == Dilithium_sign(dil, m, out)
                IN  r.ret = <<>> /\ ~r.raised
          /\ \A out \in DilOutcomes \ {"ok"}, m \in Messages, sig \in DilSigInputs :
                LET r == Dilithium_verify(dil, m, sig, out)
                IN  r.ret = FALSE /\ ~r.raised
    /\ (alive /\ backend = "rsa") =>
          /\ \A out \in RsaGenOutcomes \ {"ok"}, k \in FreshRsa(rsa, heap) :
                LET r == RSA_generateKeys(rsa, heap, out, k)
                IN  r.ret = FALSE /\ ~r.raised
          /\ \A out \in RsaSignOutcomes \ {"ok"}, m \in Messages :
                LET r == RSA_sign(rsa, heap, m, out)
                IN  r.ret = <<>> /\ ~r.raised
          /\ \A out \in RsaVerifyOutcomes \ {"ok"}, m \in Messages,
                sig \in RsaSigInputs(rsa.keySize_) :
                LET r == RSA_verify(rsa, heap, m, sig, out)
                IN  r.ret = FALSE /\ ~r.raised

\* the primitive has just failed inside sign on a backend that holds keys
C7_Witness ==
    /\ alive /\ HasKeys
    /\ lastOp = "sign" /\ lastOut \notin {"ok", "none"} /\ primCalled
    /\ ret = <<>> /\ ~escaped

\* C8: once a lattice backend is destroyed, every byte of its 4032-byte
\* secret-key buffer is zero.
C8_SecretKeyWiped ==
    (backend = "dilithium" /\ ~alive) =>
        /\ Size(dil.secretKey_) = SECRET_KEY_BYTES
        /\ AllZero(dil.secretKey_)

\* a lattice backend that held a keypair has been destroyed
C8_Witness ==
    /\ backend = "dilithium" /\ ~alive
    /\ dil.keysGenerated_ /\ loaded = {"pk", "sk"} /\ dil.publicKey_ = PkOf(2)
    /\ AllZero(dil.secretKey_)

\* C9: on either backend, a generate_keys() call on a backend that holds a
\* keypair leaves the backend without the prior keypair: the prior secret
\* material is overwritten or released and sign does not sign with it.
C9_PriorKeyDiscarded ==
    [][ (alive /\ HasKeys /\ lastOp' = "generateKeys") =>
            IF backend = "dilithium"
            THEN /\ dil'.secretKey_ # dil.secretKey_
                 /\ \A m \in Messages :
                       Dilithium_sign(dil', m, "ok").ret
                           # ref_signature(m, dil.secretKey_)
            ELSE /\ \A h \in Live(heap') :
                       heap'.cells[h].key # heap.cells[rsa.pkey_].key
                 /\ \A m \in Messages :
                       RSA_sign(rsa', heap', m, "ok").ret
                           # rsa_signature(m, heap.cells[rsa.pkey_].key, rsa.keySize_)
      ]_vars

\* C10: on the lattice backend has_keys() is true only if both the
\* public-key buffer and the secret-key buffer were filled by a successful
\* generate_keys or import; it is never true while the public-key buffer
\* still has its all-zero initial content.
C10_HasKeysMeansKeypair ==
    (backend = "dilithium" /\ Dilithium_hasKeys(dil)) => loaded = {"pk", "sk"}

----------------------------------------------------------------------------
(* Benchmark::run(func, iterations) *)

InitBench ==
    /\ backend = "none"
    /\ alive = FALSE
    /\ dil = Dilithium_new
    /\ rsa = RSA_new(2048)
    /\ heap = EmptyHeap
    /\ lastOp = "new"
    /\ lastOut = "none"
    /\ ret = "void"
    /\ primCalled = FALSE
    /\ escaped = FALSE
    /\ genOk = FALSE
    /\ loaded = {}
    /\ bench = BenchIdle
    /\ MainNotStarted

\* Benchmark::run is called with an iteration count n >= 1
BenchRun ==
    /\ bench.pc \in {"idle", "done"}
    /\ \E n \in 1..MaxIterations :
          bench' = [pc |-> "loop", iterations |-> n, times |-> <<>>, result |-> NoResult]
    /\ UNCHANGED <<backendVars, mainVars>>

\* one iteration of the timing loop that is not the last: func() runs
\* between two clock reads, which are micros microseconds apart
BenchIterate ==
    /\ bench.pc = "loop"
    /\ Len(bench.times) + 1 < bench.iterations
    /\ \E micros \in 0..MaxMicros :
          bench' = [bench EXCEPT !.times = Append(@, ToMilliseconds(micros))]
    /\ UNCHANGED <<backendVars, mainVars>>

\* the last iteration of the timing loop, the statistics and the return
BenchFinish ==
    /\ bench.pc = "loop"
    /\ Len(bench.times) + 1 = bench.iterations
    /\ \E micros \in 0..MaxMicros :
          LET times == Append(bench.times, ToMilliseconds(micros))
          IN  bench' = [bench EXCEPT !.pc = "done", !.times = times,
                                     !.result = Reduce(times, bench.iterations)]
    /\ UNCHANGED <<backendVars, mainVars>>

NextBench ==
    \/ BenchRun
    \/ BenchIterate
    \/ BenchFinish

SpecBench == InitBench /\ [][NextBench]_vars

\* C5: the Result R of Benchmark::run(op, n), n >= 1, has R.iterations = n,
\* R.min_time <= R.average_time <= R.max_time and R.std_dev >= 0, whatever
\* the n recorded latencies are.
C5_ResultInvariant ==
    bench.pc = "done" =>
        LET R == bench.result
        IN  /\ R.iterations = bench.iterations
            /\ DLeq(R.minTime, R.averageTime)
            /\ DLeq(R.averageTime, R.maxTime)
            /\ DLeq(DZero, R.stdDev)

----------------------------------------------------------------------------
(* main(): demonstrateBasicUsage, runComprehensiveBenchmark and the exit *)

InitMain ==
    /\ backend = "none"
    /\ alive = FALSE
    /\ dil = Dilithium_new
    /\ rsa = RSA_new(2048)
    /\ heap = EmptyHeap
    /\ lastOp = "new"
    /\ lastOut = "none"
    /\ ret = "void"
    /\ primCalled = FALSE
    /\ escaped = FALSE
    /\ genOk = FALSE
    /\ loaded = {}
    /\ bench = BenchIdle
    /\ \E e \in Envs : MainInit(e, Pos("demo", "step1", "demo", "none"))

\* std::cout / std::cerr receive lines; a line written while a timed region
\* is open is an output event of that region
Say(lines) ==
    /\ output' = output \o lines
    /\ region' = IF region.open THEN [region EXCEPT !.outputs = @ + Len(lines)]
                 ELSE region

\* where control goes after a call: on to position next, or to the handler
\* of main() when an exception left the call
Continue(raised, next) ==
    IF raised THEN Pos("main", "catch", "none", "none") ELSE next

RECURSIVE DestroyLocals(_, _, _)
\* the destructors of the locals bs, run in the order given
DestroyLocals(bs, os, hp) ==
    IF bs = <<>> THEN [objs |-> os, heap |-> hp]
    ELSE LET d == destroyOn(Head(bs), os[Head(bs)], hp)
         IN  DestroyLocals(Tail(bs), [os EXCEPT ![Head(bs)] = d.obj], d.heap)

\* the record of a call made on backend object b
Called(fn, b, timed, m, sig, os, hp) ==
    [fn |-> fn, b |-> b, timed |-> timed, message |-> m, signature |-> sig,
     key |-> KeyHeld(b, os[b], hp)]

BenchStart == Pos("bench", "begin", "none", "none")

\* step 1 without the return after the diagnostic of a failed key generation
DemoStep1_noReturn ==
    /\ pc = Pos("demo", "step1", "demo", "none")
    /\ \E r \in generateKeysOn("demo", NewObject("demo"), evp, env) :
          LET os   == [objs EXCEPT !["demo"] = r.obj]
              head == <<"DILITHIUM BASIC USAGE DEMO", "1. Generating Dilithium key pair...">>
          IN  /\ call' = Called("generateKeys", "demo", FALSE, <<>>, <<>>, os, r.heap)
              /\ callCount' = [callCount EXCEPT !["demo"].generateKeys = @ + 1]
              /\ objs' = os
              /\ evp' = r.heap
              /\ Say(head \o (IF r.ret THEN <<"Key generation successful">>
                               ELSE <<"Failed to generate keys!">>)
                       \o <<"2. Message to sign">>)
              /\ mainMessage' = DemoMessage
              /\ pc' = Pos("demo", "step3", "demo", "none")
    /\ UNCHANGED <<backendVars, bench, env, exitCode, sigs, results, run, lastSign,
                   ratioLines>>

\* demonstrateBasicUsage, step 1 and step 2: header, key generation, message
DemoStep1 ==
    /\ pc = Pos("demo", "step1", "demo", "none")
    /\ \E r \in generateKeysOn("demo", NewObject("demo"), evp, env) :
          LET os   == [objs EXCEPT !["demo"] = r.obj]
              gone == DestroyLocals(<<"demo">>, os, r.heap)
              head == <<"DILITHIUM BASIC USAGE DEMO", "1. Generating Dilithium key pair...">>
          IN  /\ call' = Called("generateKeys", "demo", FALSE, <<>>, <<>>, os, r.heap)
              /\ callCount' = [callCount EXCEPT !["demo"].generateKeys = @ + 1]
              /\ IF r.raised \/ ~r.ret
                 THEN /\ objs' = gone.objs
                      /\ evp' = gone.heap
                      /\ Say(IF r.raised THEN head
                             ELSE head \o <<"Failed to generate keys!">>)
                      /\ mainMessage' = mainMessage
                      /\ pc' = Continue(r.raised, BenchStart)
                 ELSE /\ objs' = os
                      /\ evp' = r.heap
                      /\ Say(head \o <<"Key generation successful", "2. Message to sign">>)
                      /\ mainMessage' = DemoMessage
                      /\ pc' = Pos("demo", "step3", "demo", "none")
    /\ UNCHANGED <<backendVars, bench, env, exitCode, sigs, results, run, lastSign,
                   ratioLines>>

\* demonstrateBasicUsage, step 3: sign the message
DemoStep3 ==
    /\ pc = Pos("demo", "step3", "demo", "none")
    /\ \E r \in signOn("demo", objs["demo"], evp, mainMessage, env) :
          LET gone == DestroyLocals(<<"demo">>, objs, r.heap)
              head == <<"3. Signing message...">>
          IN  /\ call' = Called("sign", "demo", FALSE, mainMessage, <<>>, objs, evp)
              /\ sigs' = [sigs EXCEPT !["demo"] = r.ret]
              /\ callCount' = [callCount EXCEPT !["demo"].sign = @ + 1]
              /\ lastSign' = [lastSign EXCEPT !["demo"] =
                                 [message |-> mainMessage, ret |-> r.ret,
                                  key |-> KeyHeld("demo", objs["demo"], evp)]]
              /\ IF r.raised \/ r.ret = <<>>
                 THEN /\ objs' = gone.objs
                      /\ evp' = gone.heap
                      /\ Say(IF r.raised THEN head
                             ELSE head \o <<"Failed to sign message!">>)
                      /\ pc' = Continue(r.raised, BenchStart)
                 ELSE /\ objs' = objs
                      /\ evp' = r.heap
                      /\ Say(head \o <<"Signature created">>)
                      /\ pc' = Pos("demo", "step4", "demo", "none")
    /\ UNCHANGED <<backendVars, bench, env, exitCode, mainMessage, results, run,
                   ratioLines>>

\* demonstrateBasicUsage, step 4: verify the signature
DemoStep4 ==
    /\ pc = Pos("demo", "step4", "demo", "none")
    /\ \E r \in verifyOn("demo", objs["demo"], evp, mainMessage, sigs["demo"], env) :
          LET gone == DestroyLocals(<<"demo">>, objs, r.heap)
              head == <<"4. Verifying signature...">>
          IN  /\ call' = Called("verify", "demo", FALSE, mainMessage, sigs["demo"], objs, evp)
              /\ callCount' = [callCount EXCEPT !["demo"].verify = @ + 1]
              /\ IF r.raised
                 THEN /\ objs' = gone.objs
                      /\ evp' = gone.heap
                      /\ Say(head)
                 ELSE /\ objs' = objs
                      /\ evp' = r.heap
                      /\ Say(head \o <<IF r.ret THEN "Signature is VALID"
                                        ELSE "Signature is INVALID">>)
              /\ pc' = Continue(r.raised, Pos("demo", "step5", "demo", "none"))
    /\ UNCHANGED <<backendVars, bench, env, exitCode, mainMessage, sigs, results, run,
                   lastSign, ratioLines>>

\* demonstrateBasicUsage, step 5: flip one bit of the message, verify, return
DemoStep5 ==
    /\ pc = Pos("demo", "step5", "demo", "none")
    /\ LET tampered == FlipLowBit(mainMessage)
       IN  \E r \in verifyOn("demo", objs["demo"], evp, tampered, sigs["demo"], env) :
              LET gone == DestroyLocals(<<"demo">>, objs, r.heap)
                  head == <<"5. Testing with tampered message...">>
              IN  /\ call' = Called("verify", "demo", FALSE, tampered, sigs["demo"], objs, evp)
                  /\ callCount' = [callCount EXCEPT !["demo"].verify = @ + 1]
                  /\ mainMessage' = tampered
                  /\ objs' = gone.objs
                  /\ evp' = gone.heap
                  /\ Say(IF r.raised THEN head
                         ELSE head \o <<IF r.ret
                                        THEN "Tampered signature is VALID (ERROR!)"
                                        ELSE "Tampered signature is INVALID (CORRECT!)">>)
                  /\ pc' = Continue(r.raised, BenchStart)
    /\ UNCHANGED <<backendVars, bench, env, exitCode, sigs, results, run, lastSign,
                   ratioLines>>

\* runComprehensiveBenchmark: header, configuration and the test message
BenchBegin ==
    /\ pc = BenchStart
    /\ Say(<<"DILITHIUM vs RSA BENCHMARK SUITE", "Configuration:">>)
    /\ mainMessage' \in generateRandomMessage(MESSAGE_SIZE)
    /\ pc' = Pos("bench", "phase", Backends[1], "none")
    /\ UNCHANGED <<backendVars, bench, env, exitCode, objs, evp, sigs, results, run,
                   call, callCount, lastSign, ratioLines>>

\* a benchmark phase starts: its banner, its backend object, its signature local
PhaseBegin ==
    /\ pc.fn = "bench" /\ pc.at = "phase"
    /\ Say(<<"Testing " \o pc.b \o "...">>)
    /\ objs' = [objs EXCEPT ![pc.b] = NewObject(pc.b)]
    /\ sigs' = [sigs EXCEPT ![pc.b] = <<>>]
    /\ pc' = Pos("bench", "run", pc.b, "keygen")
    /\ UNCHANGED <<backendVars, bench, env, exitCode, mainMessage, evp, results, run,
                   call, callCount, lastSign, ratioLines>>

\* one call main() makes on backend object b: generateKeys(), sig = sign(message)
\* or verify(message, sig), the lambdas of the benchmarks and the statements
\* between them alike
Perform(op, b, timed, next) ==
    IF op = "keygen"
    THEN \E r \in generateKeysOn(b, objs[b], evp, env) :
            LET os == [objs EXCEPT ![b] = r.obj]
            IN  /\ objs' = os
                /\ evp' = r.heap
                /\ callCount' = [callCount EXCEPT ![b].generateKeys = @ + 1]
                /\ call' = Called("generateKeys", b, timed, <<>>, <<>>, os, r.heap)
                /\ pc' = Continue(r.raised, next)
                /\ UNCHANGED <<sigs, lastSign>>
    ELSE IF op = "sign"
    THEN \E r \in signOn(b, objs[b], evp, mainMessage, env) :
            /\ evp' = r.heap
            /\ sigs' = IF r.raised THEN sigs ELSE [sigs EXCEPT ![b] = r.ret]
            /\ callCount' = [callCount EXCEPT ![b].sign = @ + 1]
            /\ lastSign' = [lastSign EXCEPT ![b] =
                               [message |-> mainMessage, ret |-> r.ret,
                                key |-> KeyHeld(b, objs[b], evp)]]
            /\ call' = Called("sign", b, timed, mainMessage, <<>>, objs, evp)
            /\ pc' = Continue(r.raised, next)
            /\ UNCHANGED objs
    ELSE \E r \in verifyOn(b, objs[b], evp, mainMessage, sigs[b], env) :
            /\ evp' = r.heap
            /\ call' = Called("verify", b, timed, mainMessage, sigs[b], objs, evp)
            /\ callCount' = [callCount EXCEPT ![b].verify = @ + 1]
            /\ pc' = Continue(r.raised, next)
            /\ UNCHANGED <<objs, sigs, lastSign>>

\* Benchmark::run that calls func() once, untimed, before its loop
RunEnter_warmUp ==
    /\ pc.fn = "bench" /\ pc.at = "run"
    /\ Perform(pc.op, pc.b, TRUE, [pc EXCEPT !.at = "loop"])
    /\ run' = [n     |-> IF pc.op = "keygen" THEN KeygenIterations ELSE BenchIterations,
               times |-> <<>>,
               calls |-> 1]
    /\ UNCHANGED <<backendVars, bench, env, output, exitCode, mainMessage, results,
                   region, ratioLines>>

\* Benchmark::run(func, iterations) is entered
RunEnter ==
    /\ pc.fn = "bench" /\ pc.at = "run"
    /\ run' = [n     |-> IF pc.op = "keygen" THEN KeygenIterations ELSE BenchIterations,
               times |-> <<>>,
               calls |-> 0]
    /\ pc' = [pc EXCEPT !.at = "loop"]
    /\ UNCHANGED <<backendVars, bench, env, output, exitCode, mainMessage, objs, evp, sigs,
                   results, region, call, callCount, lastSign, ratioLines>>

\* auto start = high_resolution_clock::now(): a timed region opens
ClockStart ==
    /\ pc.fn = "bench" /\ pc.at = "loop"
    /\ Len(run.times) < run.n
    /\ region' = [region EXCEPT !.open = TRUE, !.calls = 0, !.outputs = 0,
                                !.overlap = (region.overlap \/ region.open)]
    /\ pc' = [pc EXCEPT !.at = "func"]
    /\ UNCHANGED <<backendVars, bench, env, output, exitCode, mainMessage, objs, evp, sigs,
                   results, run, call, callCount, lastSign, ratioLines>>

\* func(): the benchmarked lambda runs
RunFunc ==
    /\ pc.fn = "bench" /\ pc.at = "func"
    /\ Perform(pc.op, pc.b, TRUE, [pc EXCEPT !.at = "stop"])
    /\ run' = [run EXCEPT !.calls = @ + 1]
    /\ region' = IF region.open THEN [region EXCEPT !.calls = @ + 1] ELSE region
    /\ UNCHANGED <<backendVars, bench, env, output, exitCode, mainMessage, results,
                   ratioLines>>

\* auto end = high_resolution_clock::now(): the region closes and its
\* duration, in milliseconds, is recorded
ClockEnd ==
    /\ pc.fn = "bench" /\ pc.at = "stop"
    /\ \E micros \in Elapsed(env, pc.op) :
          run' = [run EXCEPT !.times = Append(@, ToMilliseconds(micros))]
    /\ region' = [region EXCEPT !.open = FALSE, !.closed = @ + 1]
    /\ pc' = [pc EXCEPT !.at = "loop"]
    /\ UNCHANGED <<backendVars, bench, env, output, exitCode, mainMessage, objs, evp, sigs,
                   results, call, callCount, lastSign, ratioLines>>

\* every vector of durations one run() can have collected, in milliseconds
Measurements ==
    UNION { [1..n -> { ToMilliseconds(micros) : micros \in 0..MaxLatency }] :
            n \in {BenchIterations, KeygenIterations} }

\* the Result run() computes from each of them, evaluated once
Reduced == { <<times, Reduce(times, Len(times))>> : times \in Measurements }

\* Reduce(times, iterations), read from Reduced where it holds the vector
ReduceOf(times, iterations) ==
    IF iterations = Len(times) /\ \E p \in Reduced : p[1] = times
    THEN (CHOOSE p \in Reduced : p[1] = times)[2]
    ELSE Reduce(times, iterations)

\* the loop of Benchmark::run is over: the statistics, and the Result is
\* assigned to the local of the caller
RunReturn ==
    /\ pc.fn = "bench" /\ pc.at = "loop"
    /\ Len(run.times) = run.n
    /\ results' = [results EXCEPT ![pc.b][pc.op] = ReduceOf(run.times, run.n)]
    /\ run' = NoRun
    /\ region' = [region EXCEPT !.closed = 0]
    /\ pc' = IF pc.op = "verify" THEN Pos("bench", "done", pc.b, "none")
             ELSE Pos("bench", "final", pc.b, pc.op)
    /\ UNCHANGED <<backendVars, bench, env, output, exitCode, mainMessage, objs, evp, sigs,
                   call, callCount, lastSign, ratioLines>>

\* runComprehensiveBenchmark without the generateKeys() that follows the key
\* generation benchmark
FinalCall_skipKeygen ==
    /\ pc.fn = "bench" /\ pc.at = "final"
    /\ IF pc.op = "keygen"
       THEN /\ pc' = Pos("bench", "run", pc.b, "sign")
            /\ UNCHANGED <<objs, evp, sigs, call, callCount, lastSign>>
       ELSE Perform(pc.op, pc.b, FALSE, Pos("bench", "run", pc.b, "verify"))
    /\ UNCHANGED <<backendVars, bench, env, output, exitCode, mainMessage, results, run,
                   region, ratioLines>>

\* the statement between two benchmarks: generateKeys() after the key
\* generation benchmark, sig = sign(message) after the sign benchmark
FinalCall ==
    /\ pc.fn = "bench" /\ pc.at = "final"
    /\ Perform(pc.op, pc.b, FALSE,
               Pos("bench", "run", pc.b, IF pc.op = "keygen" THEN "sign" ELSE "verify"))
    /\ UNCHANGED <<backendVars, bench, env, output, exitCode, mainMessage, results, run,
                   region, ratioLines>>

\* a benchmark phase ends: "Done!", then the next phase or the report
PhaseDone ==
    /\ pc.fn = "bench" /\ pc.at = "done"
    /\ Say(<<"Done!">>)
    /\ pc' = LET i == CHOOSE j \in 1..Len(Backends) : Backends[j] = pc.b
             IN  IF i < Len(Backends) THEN Pos("bench", "phase", Backends[i + 1], "none")
                 ELSE Pos("bench", "report", "none", "none")
    /\ UNCHANGED <<backendVars, bench, env, exitCode, mainMessage, objs, evp, sigs, results,
                   run, call, callCount, lastSign, ratioLines>>

\* one line of the speed comparison: the ratio of the RSA average to the
\* Dilithium3 average of operation op, and its annotation
RatioLine(b, op) ==
    LET rsaAvg  == results[b][op].averageTime
        baseAvg == results["Dilithium3"][op].averageTime
    IN  [backend |-> b, op |-> op, rsaAvg |-> rsaAvg, baseAvg |-> baseAvg,
         note |-> IF op = "keygen" THEN "slower"
                  ELSE IF DLess(baseAvg, rsaAvg) THEN "slower" ELSE "faster"]

\* the comparison table, the detailed analysis, and the return of
\* runComprehensiveBenchmark, which destroys its locals
Report ==
    /\ pc = Pos("bench", "report", "none", "none")
    /\ Say(<<"PERFORMANCE COMPARISON", "table header", "row Dilithium3", "row RSA-2048",
             "row RSA-3072", "table separator", "DETAILED ANALYSIS",
             "Speed Comparison (vs Dilithium3):", "Size Comparison:", "Security Level:",
             "Post-Quantum Security:">>)
    /\ ratioLines' = << RatioLine("RSA-2048", "keygen"), RatioLine("RSA-3072", "keygen"),
                        RatioLine("RSA-2048", "sign"),   RatioLine("RSA-3072", "sign"),
                        RatioLine("RSA-2048", "verify"), RatioLine("RSA-3072", "verify") >>
    /\ LET gone == DestroyLocals(<<"RSA-3072", "RSA-2048", "Dilithium3">>, objs, evp)
       IN  /\ objs' = gone.objs
           /\ evp' = gone.heap
    /\ pc' = Pos("main", "return", "none", "none")
    /\ UNCHANGED <<backendVars, bench, env, exitCode, mainMessage, sigs, results, run,
                   call, callCount, lastSign>>

\* the end of main(): the banner and return 0, or the handler of
\* std::exception, which reports the error and returns 1
MainReturn ==
    /\ pc.fn = "main" /\ pc.at \in {"return", "catch"}
    /\ IF pc.at = "return"
       THEN /\ Say(<<"BENCHMARK COMPLETED SUCCESSFULLY">>)
            /\ exitCode' = 0
            /\ UNCHANGED <<objs, evp>>
       ELSE LET gone == DestroyLocals(<<"RSA-3072", "RSA-2048", "Dilithium3">>, objs, evp)
            IN  /\ Say(<<"Error: ">>)
                /\ exitCode' = 1
                /\ objs' = gone.objs
                /\ evp' = gone.heap
    /\ pc' = Pos("main", "exited", "none", "none")
    /\ UNCHANGED <<backendVars, bench, env, mainMessage, sigs, results, run, call,
                   callCount, lastSign, ratioLines>>

NextMain ==
    \/ DemoStep1
    \/ DemoStep3
    \/ DemoStep4
    \/ DemoStep5
    \/ BenchBegin
    \/ PhaseBegin
    \/ RunEnter
    \/ ClockStart
    \/ RunFunc
    \/ ClockEnd
    \/ RunReturn
    \/ FinalCall
    \/ PhaseDone
    \/ Report
    \/ MainReturn

SpecMain == InitMain /\ [][NextMain]_vars

----------------------------------------------------------------------------
(* Properties of main() *)

\* iterations the benchmark of operation op is run with
IterationsOf(op) == IF op = "keygen" THEN KeygenIterations ELSE BenchIterations

\* every Result local of runComprehensiveBenchmark holds the Result of a
\* completed Benchmark::run
AllBenchmarksRun ==
    \A i \in 1..Len(Backends), j \in 1..Len(Ops) :
        results[Backends[i]][Ops[j]].iterations = IterationsOf(Ops[j])

InOutput(line) == \E i \in 1..Len(output) : output[i] = line

\* index of x in the sequence xs
IndexIn(xs, x) == CHOOSE i \in 1..Len(xs) : xs[i] = x

\* steps of one Benchmark::run of n iterations: entry, n regions of three
\* steps, return
RunSteps(n) == 3 * n + 2

RECURSIVE OpsSteps(_)
\* steps from the entry of the benchmark of operation Ops[j] to the end of
\* the phase, the statements between the benchmarks included
OpsSteps(j) ==
    IF j > Len(Ops) THEN 0
    ELSE RunSteps(IterationsOf(Ops[j])) + (IF j < Len(Ops) THEN 1 ELSE 0) + OpsSteps(j + 1)

\* steps from the start of phase i to the report: per phase its banner, its
\* benchmarks and its "Done!"
PhasesSteps(i) == (Len(Backends) - i + 1) * (OpsSteps(1) + 2)

\* an upper bound of the steps main() has left at position p with the
\* Benchmark::run locals r
StepsLeft(p, r) ==
    IF p.fn = "main" THEN (IF p.at = "exited" THEN 0 ELSE 1)
    ELSE IF p.fn = "demo"
    THEN PhasesSteps(1) + 3
            + (IF p.at = "step1" THEN 4 ELSE IF p.at = "step3" THEN 3
               ELSE IF p.at = "step4" THEN 2 ELSE 1)
    ELSE IF p.at = "begin" THEN PhasesSteps(1) + 3
    ELSE IF p.at = "report" THEN 2
    ELSE LET i    == IndexIn(Backends, p.b)
             rest == PhasesSteps(i + 1) + 2
         IN  IF p.at = "phase" THEN PhasesSteps(i) + 2
             ELSE IF p.at = "done" THEN rest + 1
             ELSE LET j     == IndexIn(Ops, p.op)
                      after == rest + 1 + OpsSteps(j + 1)
                                 + (IF j < Len(Ops) THEN 1 ELSE 0)
                      left  == 3 * (r.n - Len(r.times))
                  IN  IF p.at = "run" THEN after + RunSteps(IterationsOf(p.op))
                      ELSE IF p.at = "loop" THEN after + 1 + left
                      ELSE IF p.at = "func" THEN after + 1 + left - 1
                      ELSE IF p.at = "stop" THEN after + 1 + left - 2
                      ELSE after                          \* "final"

\* position p is a statement of main() that can be executed
AtStatement(p, r) ==
    \/ p.fn = "demo" /\ p.at \in {"step1", "step3", "step4", "step5"}
    \/ p.fn = "bench" /\ p.at \in {"begin", "phase", "run", "func", "stop", "final",
                                    "done", "report"}
    \/ p.fn = "bench" /\ p.at = "loop" /\ Len(r.times) <= r.n
    \/ p.fn = "main" /\ p.at \in {"return", "catch"}

\* C11: whatever generate_keys, sign and verify calls fail in the
\* demonstration and in the benchmark phase, main() never enters its
\* exception handler and never returns 1; until it has returned it is at a
\* statement it can execute and every step brings it closer to the return;
\* and when it has returned 0, the key generation, sign and verify
\* benchmarks of Dilithium3, RSA-2048 and RSA-3072 have run and the
\* comparison table and the success banner have been printed.
C11_NeverAborts ==
    /\ [](exitCode # 1 /\ pc.at # "catch")
    /\ [](IF exitCode = -1 THEN AtStatement(pc, run) ELSE pc.at = "exited")
    /\ [][pc.fn # "none" => StepsLeft(pc', run') < StepsLeft(pc, run)]_vars
    /\ [](exitCode = 0 =>
            /\ AllBenchmarksRun
            /\ InOutput("table header")
            /\ \A i \in 1..Len(Backends) : InOutput("row " \o Backends[i])
            /\ InOutput("BENCHMARK COMPLETED SUCCESSFULLY"))

\* main() returned after the demonstration failed to generate keys and no
\* benchmark backend ever held a key or produced a signature
C11_Witness ==
    /\ env = "faults"
    /\ exitCode = 0
    /\ InOutput("Failed to generate keys!")
    /\ \A i \in 1..Len(Backends) :
          /\ callCount[Backends[i]].generateKeys = KeygenIterations + 1
          /\ ~lastSign[Backends[i]].key.has
          /\ sigs[Backends[i]] = <<>>

\* C12: in every run of main(), a timed region holds no output event and,
\* once closed, exactly one invocation of the benchmarked operation; a
\* region is never opened while another is open; every invocation
\* Benchmark::run makes is inside one of its regions, and when its loop
\* ends it has made exactly n regions and n invocations.
C12_TimedRegions ==
    /\ ~region.overlap
    /\ region.outputs = 0
    /\ region.open => pc.at \in {"func", "stop"} /\ region.calls <= 1
    /\ (pc.at = "stop" \/ (~region.open /\ region.closed > 0)) => region.calls = 1
    /\ run.calls = region.closed + (IF region.open THEN region.calls ELSE 0)
    /\ region.closed = Len(run.times)
    /\ (pc.at = "loop" /\ Len(run.times) = run.n) =>
           /\ run.n = IterationsOf(pc.op)
           /\ region.closed = run.n
           /\ run.calls = run.n

\* the sign benchmark of RSA-3072 has closed its last region
C12_Witness ==
    /\ pc = Pos("bench", "loop", "RSA-3072", "sign")
    /\ Len(run.times) = BenchIterations
    /\ region.closed = BenchIterations
    /\ ~region.open
    /\ call.fn = "sign" /\ call.timed
    /\ InOutput("Done!")

\* main() is in the sign or verify part of a benchmark phase: from the entry
\* of the sign benchmark to the "Done!" of the phase
InSignOrVerify == pc.fn = "bench" /\ (pc.op \in {"sign", "verify"} \/ pc.at = "done")

\* C13: in each benchmark phase generate_keys is called KEYGEN_ITERATIONS + 1
\* times before the sign benchmark is entered and not at all from there to
\* the end of the phase, during which the key material of the backend does
\* not change; and every timed verify checks the value the last sign of
\* that backend returned, made under the key material loaded at the verify.
C13_KeygenBeforeSign ==
    /\ [](InSignOrVerify => callCount[pc.b].generateKeys = KeygenIterations + 1)
    /\ [](exitCode = 0 =>
            \A i \in 1..Len(Backends) :
                callCount[Backends[i]].generateKeys = KeygenIterations + 1)
    /\ [][InSignOrVerify =>
            /\ callCount'[pc.b].generateKeys = callCount[pc.b].generateKeys
            /\ KeyHeld(pc.b, objs'[pc.b], evp') = KeyHeld(pc.b, objs[pc.b], evp)]_vars
    /\ []((pc.at = "stop" /\ pc.op \in {"sign", "verify"}) =>
            /\ call.timed /\ call.b = pc.b
            /\ call.fn = pc.op
            /\ call.key = KeyHeld(pc.b, objs[pc.b], evp)
            /\ call.message = mainMessage)
    /\ []((pc.at = "stop" /\ pc.op = "verify") =>
            /\ call.signature = lastSign[pc.b].ret
            /\ call.key = lastSign[pc.b].key)

\* a timed verify of RSA-2048 checks a signature made under its final key
C13_Witness ==
    /\ call.fn = "verify" /\ call.timed /\ call.b = "RSA-2048"
    /\ call.key.has
    /\ call.signature # <<>>
    /\ call.signature = lastSign["RSA-2048"].ret
    /\ callCount["RSA-2048"].generateKeys = KeygenIterations + 1
    /\ pc.at = "stop"

\* C14: each of the six lines of the speed comparison is annotated "slower"
\* when the RSA average latency of its operation is greater than the
\* Dilithium3 average latency, and "faster" otherwise.
C14_RatioAnnotations ==
    \A i \in 1..Len(ratioLines) :
        ratioLines[i].note =
            IF DLess(ratioLines[i].baseAvg, ratioLines[i].rsaAvg) THEN "slower" ELSE "faster"

\* the lines of steps 2 to 5 of the demonstration
LaterDemoLines ==
    {"2. Message to sign", "3. Signing message...", "Signature created",
     "Failed to sign message!", "4. Verifying signature...", "Signature is VALID",
     "Signature is INVALID", "5. Testing with tampered message...",
     "Tampered signature is VALID (ERROR!)", "Tampered signature is INVALID (CORRECT!)"}

\* u and v are equally long and differ exactly in the low bit of byte 0
LowBitOfByte0Flipped(u, v) ==
    /\ Size(u) = Size(v) /\ Size(u) > 0
    /\ At(u, 1) # At(v, 1)
    /\ At(u, 1) \div 2 = At(v, 1) \div 2
    /\ \A i \in 2..Size(u) : At(u, i) = At(v, i)

\* C15: in the demonstration, a failed key generation writes the diagnostic
\* and then no line of steps 2 to 5 is written and neither sign nor verify is
\* called; steps 4 and 5 are printed and their verify calls made only after
\* sign returned a non-empty signature; and the verify of step 5 is given
\* that signature, made for the original message, and the message with the
\* low bit of byte 0 flipped.
C15_DemoEarlyReturns ==
    /\ InOutput("Failed to generate keys!") =>
          /\ \A i \in 1..Len(output) : output[i] \notin LaterDemoLines
          /\ callCount["demo"] = [generateKeys |-> 1, sign |-> 0, verify |-> 0]
    /\ (callCount["demo"].generateKeys = 1 /\ ~call.key.has /\ call.b = "demo"
           /\ call.fn = "generateKeys") => InOutput("Failed to generate keys!")
    /\ (callCount["demo"].verify > 0 \/ InOutput("4. Verifying signature...")
           \/ InOutput("5. Testing with tampered message...")) =>
          /\ callCount["demo"].sign = 1
          /\ lastSign["demo"].ret # <<>>
          /\ sigs["demo"] = lastSign["demo"].ret
          /\ InOutput("Signature created")
    /\ (call.b = "demo" /\ call.fn = "verify" /\ callCount["demo"].verify = 2) =>
          /\ InOutput("5. Testing with tampered message...")
          /\ call.signature = lastSign["demo"].ret
          /\ lastSign["demo"].message = DemoMessage
          /\ LowBitOfByte0Flipped(lastSign["demo"].message, call.message)

\* the demonstration returned after its key generation failed
C15_Witness ==
    /\ pc = BenchStart
    /\ call.b = "demo" /\ call.fn = "generateKeys"
    /\ ~call.key.has
    /\ InOutput("Failed to generate keys!")
    /\ callCount["demo"].sign = 0

\* C16: on either backend, right after a generate_keys() call has_keys()
\* equals the value the call returned, and after a call that returned false
\* sign returns the empty sequence for every message, whether or not an
\* earlier generate_keys had succeeded.
C16_HasKeysIsReturn ==
    (alive /\ lastOp = "generateKeys") =>
        /\ HasKeys = ret
        /\ ~ret => \A m \in Messages :
                      IF backend = "dilithium"
                      THEN Dilithium_sign(dil, m, "ok").ret = <<>>
                      ELSE RSA_sign(rsa, heap, m, "ok").ret = <<>>

====
